---------------------------- MODULE Spec2Model ----------------------------
(***************************************************************************)
(* Model of the face recognition backend: the JSON file store              *)
(* (backend/storage.py, class FaceStorage), the embedding extraction and   *)
(* the matcher (backend/face_service.py) and the endpoints                 *)
(* (backend/main.py).                                                      *)
(*                                                                         *)
(* Six specifications share the variables:                                 *)
(*   Spec      threads calling the FaceStorage methods concurrently.  A     *)
(*             step is the entry of a method, _read_data with the body of  *)
(*             the method up to its return or its call of _write_data,     *)
(*             and each file operation of _write_data; the process can     *)
(*             crash between any two steps.  All calls of a run read the   *)
(*             same clock value.                                           *)
(*   LiveSpec  the threads of Spec without the crash, fairly scheduled.    *)
(*   SeqSpec   one caller running the FaceStorage methods to completion,   *)
(*             one after the other, while the clock advances.              *)
(*   ApiSpec   the endpoints register, verify and delete called one after  *)
(*             the other.                                                  *)
(*   SvcSpec   threads calling get_face_service() for the first time.      *)
(*   MatchSpec find_best_match and verify_face applied to bounded inputs.  *)
(***************************************************************************)
EXTENDS Integers, Sequences, FiniteSets, TLC

(***************************************************************************)
(* Bounds of the model.                                                    *)
(***************************************************************************)
NThreads == 2
MaxClock == 1
MaxCalls == 3
MaxSeqCalls == 3
MaxQuery == 2
MaxEmb == 2
MaxFaces == 2
MaxImages == 2
MaxApiCalls == 2
NCallers == 3

Threads == 1..NThreads
Callers == 1..NCallers
Keys == {"u1", "u2"}
Names == {"n1", "n2"}
\* Embedding lists handed to the store (vectors are pairs of integers).
EmbLists == { << <<5, 0>> >>, << <<3, 4>>, <<0, 5>> >> }

VARIABLES
    file,       \* content of the primary file faces.json
    tmp,        \* content of the temporary file faces.tmp
    lock,       \* FaceStorage._lock: 0 when free, else the holding thread
    clock,      \* datetime.now()
    pc,         \* per thread: position inside the current FaceStorage call
    op,         \* per thread: the current call and its arguments
    data,       \* per thread: the local variable `data` of the call
    ret,        \* per thread: value returned by the last call
    ncalls,     \* number of calls started
    crashed,    \* TRUE once the process has crashed and been restarted
    committed,  \* document handed to the last _write_data that reached os.replace
    onlyCreates,\* TRUE while no update, delete or crash has happened
    calls,      \* per key: add_face calls started while onlyCreates (capped at 2)
    succ,       \* per key: add_face calls that returned True while onlyCreates (capped at 2)
    deleted,    \* Spec: keys whose delete_face returned True with no add_face of the
                \* key in progress then or started since
    last,       \* SeqSpec: the last completed call with its result
    prev,       \* SeqSpec: the call completed before `last`
    before,     \* SeqSpec, ApiSpec: the document in the file when `last` was called
                \* or `req` arrived
    query,      \* MatchSpec: query_embeddings
    stored,     \* MatchSpec: stored_faces
    threshold,  \* MatchSpec: threshold, in hundredths
    mres,       \* MatchSpec: what find_best_match returned
    req,        \* the last request handled by an endpoint of main.py
    resp,       \* the response to it
    invoked,    \* number of images of `req` handed to get_single_face_embedding
    face_service, \* SvcSpec: the global _face_service, 0 for None
    built,      \* SvcSpec: number of FaceService() constructions
    spc,        \* SvcSpec: per caller, position inside get_face_service
    got         \* SvcSpec: per caller, the instance returned, 0 before the return

storeVars == <<file, tmp, lock, clock, pc, op, data, ret, ncalls, crashed,
               committed, onlyCreates, calls, succ, deleted>>
seqVars == <<last, prev, before>>
matchVars == <<query, stored, threshold, mres>>
apiVars == <<req, resp, invoked>>
svcVars == <<face_service, built, spc, got>>
vars == <<storeVars, seqVars, matchVars, apiVars, svcVars>>

(***************************************************************************)
(* Documents and files.                                                    *)
(***************************************************************************)
\* The document _ensure_file_exists writes.
EmptyDoc == [version |-> "1.0", model |-> "arcface", items |-> <<>>]

\* A file that does not exist.
NoFile == [exists |-> FALSE, version |-> "", model |-> "", items |-> <<>>, closed |-> FALSE]

\* open(path, 'w') followed by the first output of json.dump: the header of
\* the document is in the file, the items and the closing brace are not.
OpenForWrite(d) ==
    [exists |-> TRUE, version |-> d.version, model |-> d.model, items |-> <<>>, closed |-> FALSE]

\* json.dump has written the next item of d.
DumpItem(f, d) == [f EXCEPT !.items = Append(@, d.items[Len(@) + 1])]

\* json.dump has written the closing bracket and brace.
DumpClose(f) == [f EXCEPT !.closed = TRUE]

\* The complete serialisation of d (json.dump run to its end).
RECURSIVE DumpFrom(_, _)
DumpFrom(f, d) ==
    IF Len(f.items) < Len(d.items) THEN DumpFrom(DumpItem(f, d), d) ELSE DumpClose(f)
JsonDump(d) == DumpFrom(OpenForWrite(d), d)

\* json.load succeeds only on a file that exists and holds a whole document.
Loadable(f) == f.exists /\ f.closed
JsonLoad(f) == [version |-> f.version, model |-> f.model, items |-> f.items]

(***************************************************************************)
(* Values returned by the FaceStorage methods.                             *)
(***************************************************************************)
NoRet == [kind |-> "none", val |-> FALSE]
RetBool(b) == [kind |-> "bool", val |-> b]
RetNone == [kind |-> "None", val |-> FALSE]
RetItem(r) == [kind |-> "item", val |-> r]
RetList(s) == [kind |-> "list", val |-> s]
RetInt(n) == [kind |-> "int", val |-> n]
RetError == [kind |-> "error", val |-> FALSE]

(***************************************************************************)
(* The FaceStorage methods as functions of the document read.  Each        *)
(* gives the value returned, whether _write_data is called and the         *)
(* document handed to it.                                                  *)
(***************************************************************************)
\* Index of the first item with this user_id, 0 if there is none
\* (the `for item in data["items"]` loops).
FindIndex(items, user_id) ==
    IF \E i \in 1..Len(items) : items[i].user_id = user_id
    THEN CHOOSE i \in 1..Len(items) :
            /\ items[i].user_id = user_id
            /\ \A j \in 1..(i - 1) : items[j].user_id # user_id
    ELSE 0

\* Mutant of NewItem: the new record is stamped with updated_at as well.
NewItemStamped(user_id, name, embeddings, now) ==
    [user_id |-> user_id, name |-> name, embeddings |-> embeddings,
     created_at |-> now, updated_at |-> now]

NewItem(user_id, name, embeddings, now) ==
    [user_id |-> user_id, name |-> name, embeddings |-> embeddings, created_at |-> now]

\* Mutant of AddFace: no check for an existing user_id.
AddFaceNoCheck(d, user_id, name, embeddings, now) ==
    [ret |-> RetBool(TRUE), write |-> TRUE,
     data |-> [d EXCEPT !.items = Append(@, NewItem(user_id, name, embeddings, now))]]

\* Mutant of AddFace: an existing record is overwritten.
AddFaceOverwrite(d, user_id, name, embeddings, now) ==
    LET i == FindIndex(d.items, user_id) IN
    [ret |-> RetBool(i = 0), write |-> TRUE,
     data |-> IF i = 0
              THEN [d EXCEPT !.items = Append(@, NewItem(user_id, name, embeddings, now))]
              ELSE [d EXCEPT !.items[i] = NewItem(user_id, name, embeddings, now)]]

AddFace(d, user_id, name, embeddings, now) ==
    IF FindIndex(d.items, user_id) # 0
    THEN [ret |-> RetBool(FALSE), write |-> FALSE, data |-> d]
    ELSE [ret |-> RetBool(TRUE), write |-> TRUE,
          data |-> [d EXCEPT !.items = Append(@, NewItem(user_id, name, embeddings, now))]]

\* Mutant of UpdateItem: the new embeddings are added to the old ones.
UpdateItemMerge(item, name, embeddings, now) ==
    ("updated_at" :> now) @@
        [item EXCEPT !.name = name, !.embeddings = item.embeddings \o embeddings]

\* item["name"] = name; item["embeddings"] = embeddings; item["updated_at"] = now
UpdateItem(item, name, embeddings, now) ==
    ("updated_at" :> now) @@ [item EXCEPT !.name = name, !.embeddings = embeddings]

UpdateFace(d, user_id, name, embeddings, now) ==
    LET i == FindIndex(d.items, user_id) IN
    IF i = 0
    THEN [ret |-> RetBool(FALSE), write |-> FALSE, data |-> d]
    ELSE [ret |-> RetBool(TRUE), write |-> TRUE,
          data |-> [d EXCEPT !.items[i] = UpdateItem(@, name, embeddings, now)]]

\* Mutant of RemoveAt: the last item is removed.
RemoveLast(items, i) == SubSeq(items, 1, Len(items) - 1)

\* del data["items"][i]
RemoveAt(items, i) ==
    [j \in 1..(Len(items) - 1) |-> IF j < i THEN items[j] ELSE items[j + 1]]

DeleteFace(d, user_id) ==
    LET i == FindIndex(d.items, user_id) IN
    IF i = 0
    THEN [ret |-> RetBool(FALSE), write |-> FALSE, data |-> d]
    ELSE [ret |-> RetBool(TRUE), write |-> TRUE,
          data |-> [d EXCEPT !.items = RemoveAt(@, i)]]

\* Mutant of PublicItem: the whole item is handed out.
PublicItemLeaky(item) == item

PublicItem(item) ==
    [user_id |-> item.user_id, name |-> item.name, created_at |-> item.created_at]

GetAllFaces(d) ==
    [ret |-> RetList([i \in 1..Len(d.items) |-> PublicItem(d.items[i])]),
     write |-> FALSE, data |-> d]

GetAllEmbeddings(d) == [ret |-> RetList(d.items), write |-> FALSE, data |-> d]

GetFaceById(d, user_id) ==
    LET i == FindIndex(d.items, user_id) IN
    [ret |-> IF i = 0 THEN RetNone ELSE RetItem(d.items[i]), write |-> FALSE, data |-> d]

Count(d) == [ret |-> RetInt(Len(d.items)), write |-> FALSE, data |-> d]

\* main.py, UserInfo(**u): the response model keeps its three fields.
UserInfo(u) == [user_id |-> u.user_id, name |-> u.name, created_at |-> u.created_at]

\* main.py, list_users: the response built on get_all_faces.
ListUsers(d) ==
    LET users == GetAllFaces(d).ret.val IN
    [count |-> Len(users), users |-> [i \in 1..Len(users) |-> UserInfo(users[i])]]

\* The calls a client can make.
NoCall == [name |-> "none", user_id |-> "u1", dname |-> "n1", embeddings |-> <<>>]
CallsWith(names, embs) ==
    [name : {"add_face", "update_face"}, user_id : Keys, dname : names, embeddings : embs]
    \cup [name : {"delete_face", "get_face_by_id"}, user_id : Keys, dname : {"n1"}, embeddings : {<<>>}]
    \cup [name : {"get_all_faces", "get_all_embeddings", "count"},
          user_id : {"u1"}, dname : {"n1"}, embeddings : {<<>>}]
\* SeqSpec: every name with every embedding list.
CallsOf == CallsWith(Names, EmbLists)
\* Spec: add_face with ("n1", one vector), update_face with ("n2", two vectors).
ConcCalls ==
    {c \in CallsOf : /\ c.name = "add_face" => (c.dname = "n1" /\ Len(c.embeddings) = 1)
                     /\ c.name = "update_face" => (c.dname = "n2" /\ Len(c.embeddings) = 2)}

\* The body of the method after data = self._read_data().
Apply(c, d, now) ==
    CASE c.name = "add_face" -> AddFace(d, c.user_id, c.dname, c.embeddings, now)
      [] c.name = "update_face" -> UpdateFace(d, c.user_id, c.dname, c.embeddings, now)
      [] c.name = "delete_face" -> DeleteFace(d, c.user_id)
      [] c.name = "get_all_faces" -> GetAllFaces(d)
      [] c.name = "get_all_embeddings" -> GetAllEmbeddings(d)
      [] c.name = "get_face_by_id" -> GetFaceById(d, c.user_id)
      [] OTHER -> Count(d)

Inc2(n) == IF n < 2 THEN n + 1 ELSE 2
ZeroCount == [k \in Keys |-> 0]

(***************************************************************************)
(* Initial state: FaceStorage() has run, _ensure_file_exists has written   *)
(* the empty document.                                                     *)
(***************************************************************************)
\* No thread is inside a call and nothing has been written.
InitCalls ==
    /\ tmp = NoFile
    /\ lock = 0
    /\ clock = 0
    /\ pc = [t \in Threads |-> "idle"]
    /\ op = [t \in Threads |-> NoCall]
    /\ data = [t \in Threads |-> EmptyDoc]
    /\ ret = [t \in Threads |-> NoRet]
    /\ ncalls = 0
    /\ crashed = FALSE
    /\ onlyCreates = TRUE
    /\ calls = ZeroCount
    /\ succ = ZeroCount
    /\ deleted = {}
    /\ last = [call |-> NoCall, ret |-> NoRet]
    /\ prev = [call |-> NoCall, ret |-> NoRet]
    /\ before = EmptyDoc

InitStore ==
    /\ file = JsonDump(EmptyDoc)
    /\ committed = EmptyDoc
    /\ InitCalls

\* No find_best_match call has been made.
NoResult ==
    [done |-> FALSE, matched |-> FALSE, user_id |-> "None", name |-> "None",
     score |-> [nan |-> FALSE, v |-> 0], selected |-> 0]

\* A status message: the text, and the two numbers formatted into it, the
\* image number of "Image {i + 1}: ..." and the count of "Multiple faces
\* detected ({len(faces)})"; 0 where the text has no such number.
Status(msg, image, count) == [msg |-> msg, image |-> image, count |-> count]

\* No endpoint has been called.
NoRequest == [endpoint |-> "none", user_id |-> "", name |-> "", images |-> <<>>]
NoResponse ==
    [code |-> 0, detail |-> Status("", 0, 0), success |-> FALSE, matched |-> FALSE,
     user_id |-> "None", name |-> "None", score |-> [nan |-> FALSE, v |-> 0]]

\* The module globals of main.py and face_service.py after import.
InitHandlers ==
    /\ req = NoRequest
    /\ resp = NoResponse
    /\ invoked = 0
    /\ face_service = 0
    /\ built = 0
    /\ spc = [c \in Callers |-> "start"]
    /\ got = [c \in Callers |-> 0]

Init ==
    /\ InitStore
    /\ InitHandlers
    /\ query = <<>>
    /\ stored = <<>>
    /\ threshold = 45
    /\ mres = NoResult

(***************************************************************************)
(* Spec: concurrent callers.                                               *)
(***************************************************************************)
\* A thread enters a FaceStorage method; its first statement is
\* data = self._read_data().
Call(t, c) ==
    /\ pc[t] = "idle"
    /\ ncalls < MaxCalls
    /\ ncalls' = ncalls + 1
    /\ op' = [op EXCEPT ![t] = c]
    /\ ret' = [ret EXCEPT ![t] = NoRet]
    /\ pc' = [pc EXCEPT ![t] = "rlock"]
    /\ onlyCreates' = (onlyCreates /\ c.name \notin {"update_face", "delete_face"})
    /\ calls' = IF ~onlyCreates' THEN ZeroCount
                ELSE IF c.name = "add_face" THEN [calls EXCEPT ![c.user_id] = Inc2(@)]
                ELSE calls
    /\ succ' = IF onlyCreates' THEN succ ELSE ZeroCount
    /\ deleted' = IF c.name = "add_face" THEN deleted \ {c.user_id} ELSE deleted
    /\ UNCHANGED <<file, tmp, lock, clock, data, crashed, committed, seqVars, matchVars,
                   apiVars, svcVars>>

\* Bookkeeping of a returned call.
Returned(c, r) ==
    succ' = IF onlyCreates /\ c.name = "add_face" /\ r = RetBool(TRUE)
            THEN [succ EXCEPT ![c.user_id] = Inc2(@)]
            ELSE succ

\* _read_data (with self._lock: open, json.load; the lock is released on
\* leaving the with block) and the body of the method up to its return or
\* its call of _write_data.  The lock is taken and released within the step
\* and the body acts on the thread's own `data` only, so no other thread can
\* observe a state in between.  A file json.load cannot parse raises out of
\* the method.
ReadData(t) ==
    /\ pc[t] = "rlock"
    /\ lock = 0
    /\ IF Loadable(file)
       THEN LET r == Apply(op[t], JsonLoad(file), clock) IN
            IF r.write
            THEN /\ data' = [data EXCEPT ![t] = r.data]
                 /\ pc' = [pc EXCEPT ![t] = "wlock"]
                 /\ UNCHANGED <<ret, op, succ>>
            ELSE /\ pc' = [pc EXCEPT ![t] = "idle"]
                 /\ ret' = [ret EXCEPT ![t] = r.ret]
                 /\ op' = [op EXCEPT ![t] = NoCall]
                 /\ Returned(op[t], r.ret)
                 /\ UNCHANGED data
       ELSE /\ pc' = [pc EXCEPT ![t] = "idle"]
            /\ ret' = [ret EXCEPT ![t] = RetError]
            /\ op' = [op EXCEPT ![t] = NoCall]
            /\ UNCHANGED <<data, succ>>
    /\ UNCHANGED <<file, tmp, lock, clock, ncalls, crashed, committed,
                   onlyCreates, calls, deleted, seqVars, matchVars, apiVars, svcVars>>

\* Mutant of WriteTarget: the document is written over the primary file.
WriteTargetPrimary == "file"

\* The file a write is directed to: the temporary file.
WriteTarget == "tmp"

\* _write_data: with self._lock, open(temp_path, 'w') and the start of
\* json.dump
WriteOpen(t) ==
    /\ pc[t] = "wlock"
    /\ lock = 0
    /\ lock' = t
    /\ IF WriteTarget = "tmp"
       THEN tmp' = OpenForWrite(data[t]) /\ UNCHANGED file
       ELSE file' = OpenForWrite(data[t]) /\ UNCHANGED tmp
    /\ pc' = [pc EXCEPT ![t] = "wdump"]
    /\ UNCHANGED <<clock, op, data, ret, ncalls, crashed, committed,
                   onlyCreates, calls, succ, deleted, seqVars, matchVars, apiVars,
                   svcVars>>

\* _write_data: json.dump writes the next item, or the end of the document
\* and the file is closed.
WriteDump(t) ==
    /\ pc[t] = "wdump"
    /\ lock = t
    /\ LET f == IF WriteTarget = "tmp" THEN tmp ELSE file
           g == IF Len(f.items) < Len(data[t].items) THEN DumpItem(f, data[t]) ELSE DumpClose(f)
       IN /\ IF WriteTarget = "tmp"
             THEN tmp' = g /\ UNCHANGED file
             ELSE file' = g /\ UNCHANGED tmp
          /\ pc' = [pc EXCEPT ![t] = IF g.closed THEN "wreplace" ELSE "wdump"]
    /\ UNCHANGED <<lock, clock, op, data, ret, ncalls, crashed, committed,
                   onlyCreates, calls, succ, deleted, seqVars, matchVars, apiVars,
                   svcVars>>

\* Mutant of WriteReplace: the lock is not released.
WriteReplaceKeepsLock(t) ==
    /\ pc[t] = "wreplace"
    /\ lock = t
    /\ file' = tmp /\ tmp' = NoFile
    /\ committed' = data[t]
    /\ pc' = [pc EXCEPT ![t] = "idle"]
    /\ ret' = [ret EXCEPT ![t] = RetBool(TRUE)]
    /\ op' = [op EXCEPT ![t] = NoCall]
    /\ data' = [data EXCEPT ![t] = EmptyDoc]
    /\ Returned(op[t], RetBool(TRUE))
    /\ UNCHANGED <<lock, clock, ncalls, crashed, onlyCreates, calls, deleted, seqVars,
                   matchVars, apiVars, svcVars>>

\* _write_data: os.replace(temp_path, self.file_path); the with block is
\* left, which releases the lock, and the method returns True.
WriteReplace(t) ==
    /\ pc[t] = "wreplace"
    /\ lock = t
    /\ IF WriteTarget = "tmp"
       THEN file' = tmp /\ tmp' = NoFile
       ELSE UNCHANGED <<file, tmp>>
    /\ committed' = data[t]
    /\ lock' = 0
    /\ pc' = [pc EXCEPT ![t] = "idle"]
    /\ ret' = [ret EXCEPT ![t] = RetBool(TRUE)]
    /\ op' = [op EXCEPT ![t] = NoCall]
    /\ data' = [data EXCEPT ![t] = EmptyDoc]
    /\ Returned(op[t], RetBool(TRUE))
    /\ deleted' = IF /\ op[t].name = "delete_face"
                     /\ \A u \in Threads :
                            ~(op[u].name = "add_face" /\ op[u].user_id = op[t].user_id)
                  THEN deleted \cup {op[t].user_id}
                  ELSE deleted
    /\ UNCHANGED <<clock, ncalls, crashed, onlyCreates, calls, seqVars, matchVars,
                   apiVars, svcVars>>

\* The process dies at any point and is started again: every thread and
\* the lock are gone, the files stay as they are, FaceStorage() finds the
\* primary file and writes nothing.
Crash ==
    /\ \E t \in Threads : pc[t] # "idle"
    /\ crashed' = TRUE
    /\ lock' = 0
    /\ pc' = [t \in Threads |-> "idle"]
    /\ op' = [t \in Threads |-> NoCall]
    /\ data' = [t \in Threads |-> EmptyDoc]
    /\ ret' = [t \in Threads |-> NoRet]
    /\ onlyCreates' = FALSE
    /\ calls' = ZeroCount
    /\ succ' = ZeroCount
    /\ UNCHANGED <<file, tmp, clock, ncalls, committed, deleted, seqVars, matchVars,
                   apiVars, svcVars>>

Next ==
    \/ \E t \in Threads : \E c \in ConcCalls : Call(t, c)
    \/ \E t \in Threads : ReadData(t)
    \/ \E t \in Threads : WriteOpen(t)
    \/ \E t \in Threads : WriteDump(t)
    \/ \E t \in Threads : WriteReplace(t)
    \/ Crash

Spec == Init /\ [][Next]_vars

(***************************************************************************)
(* LiveSpec: the threads of Spec in a process that does not crash, under   *)
(* a fair scheduler: a thread that can take its next step from some point  *)
(* on takes it.  All calls are on one key, the lock does not look at it.   *)
(***************************************************************************)
LiveCalls == {c \in ConcCalls : c.user_id = "u1"}

LiveNext ==
    \/ \E t \in Threads : \E c \in LiveCalls : Call(t, c)
    \/ \E t \in Threads : ReadData(t)
    \/ \E t \in Threads : WriteOpen(t)
    \/ \E t \in Threads : WriteDump(t)
    \/ \E t \in Threads : WriteReplace(t)

Fairness ==
    \A t \in Threads :
        /\ WF_vars(ReadData(t))
        /\ WF_vars(WriteOpen(t))
        /\ WF_vars(WriteDump(t))
        /\ WF_vars(WriteReplace(t))

LiveSpec == Init /\ [][LiveNext]_vars /\ Fairness


(***************************************************************************)
(* SeqSpec: one caller; every call runs from _read_data to its return       *)
(* before the next one starts.                                              *)
(***************************************************************************)
\* _write_data run to its end: the dump into the temporary file, then
\* os.replace.
WriteData(d) == JsonDump(d)

\* The whole method: data = self._read_data(), the body, self._write_data(data)
\* where the body calls it.
SeqCall(c) ==
    /\ ncalls < MaxSeqCalls
    /\ \A t \in Threads : pc[t] = "idle"
    /\ lock = 0
    /\ ncalls' = ncalls + 1
    /\ prev' = last
    /\ IF Loadable(file)
       THEN LET d == JsonLoad(file)
                r == Apply(c, d, clock)
            IN /\ before' = d
               /\ last' = [call |-> c, ret |-> r.ret]
               /\ file' = IF r.write THEN WriteData(r.data) ELSE file
               /\ committed' = IF r.write THEN r.data ELSE committed
       ELSE /\ last' = [call |-> c, ret |-> RetError]
            /\ UNCHANGED <<before, file, committed>>
    /\ UNCHANGED <<tmp, lock, clock, pc, op, data, ret, crashed, onlyCreates, calls, succ,
                   deleted, matchVars, apiVars, svcVars>>

SeqAddFace(user_id, name, embeddings) ==
    SeqCall([name |-> "add_face", user_id |-> user_id, dname |-> name, embeddings |-> embeddings])

SeqUpdateFace(user_id, name, embeddings) ==
    SeqCall([name |-> "update_face", user_id |-> user_id, dname |-> name, embeddings |-> embeddings])

SeqDeleteFace(user_id) ==
    SeqCall([name |-> "delete_face", user_id |-> user_id, dname |-> "n1", embeddings |-> <<>>])

SeqGetFaceById(user_id) ==
    SeqCall([name |-> "get_face_by_id", user_id |-> user_id, dname |-> "n1", embeddings |-> <<>>])

SeqGetAllFaces ==
    SeqCall([name |-> "get_all_faces", user_id |-> "u1", dname |-> "n1", embeddings |-> <<>>])

SeqGetAllEmbeddings ==
    SeqCall([name |-> "get_all_embeddings", user_id |-> "u1", dname |-> "n1", embeddings |-> <<>>])

SeqCount ==
    SeqCall([name |-> "count", user_id |-> "u1", dname |-> "n1", embeddings |-> <<>>])

SeqTick ==
    /\ clock < MaxClock
    /\ clock' = clock + 1
    /\ UNCHANGED <<file, tmp, lock, pc, op, data, ret, ncalls, crashed, committed,
                   onlyCreates, calls, succ, deleted, seqVars, matchVars, apiVars,
                   svcVars>>

SeqNext ==
    \/ \E k \in Keys : \E n \in Names : \E e \in EmbLists : SeqAddFace(k, n, e)
    \/ \E k \in Keys : \E n \in Names : \E e \in EmbLists : SeqUpdateFace(k, n, e)
    \/ \E k \in Keys : SeqDeleteFace(k)
    \/ \E k \in Keys : SeqGetFaceById(k)
    \/ SeqGetAllFaces
    \/ SeqGetAllEmbeddings
    \/ SeqCount
    \/ SeqTick

SeqSpec == Init /\ [][SeqNext]_vars

(***************************************************************************)
(* The matcher: FaceService.compute_cosine_similarity and find_best_match.  *)
(* Embeddings are pairs of integers.  A score is a float: either not a      *)
(* number, or a value kept in hundredths (1.0 is 100).  The vectors used    *)
(* have length 5 or 0, for which norm and quotient are exact here.          *)
(***************************************************************************)
Num(v) == [nan |-> FALSE, v |-> v]
NaN == [nan |-> TRUE, v |-> 0]

\* a > b and a >= b on floats: False as soon as one side is not a number.
Gt(a, b) == ~a.nan /\ ~b.nan /\ a.v > b.v
Ge(a, b) == ~a.nan /\ ~b.nan /\ a.v >= b.v

\* np.dot
Dot(a, b) == a[1] * b[1] + a[2] * b[2]

\* np.linalg.norm
Norm(a) == CHOOSE n \in 0..Dot(a, a) : n * n <= Dot(a, a) /\ (n + 1) * (n + 1) > Dot(a, a)

\* vec / norm(vec) for both vectors, then the dot product.  Dividing the
\* all-zero vector by its norm 0.0 gives not-a-number components in numpy
\* (a warning, no exception), and so does the dot product.
ComputeCosineSimilarity(embedding1, embedding2) ==
    IF Norm(embedding1) = 0 \/ Norm(embedding2) = 0
    THEN NaN
    ELSE Num((Dot(embedding1, embedding2) * 100) \div (Norm(embedding1) * Norm(embedding2)))

\* face.get("embeddings", []), and the single "embedding" of an old record.
StoredEmbeddings(face) ==
    LET e == IF "embeddings" \in DOMAIN face THEN face.embeddings ELSE <<>> IN
    IF e = <<>> /\ "embedding" \in DOMAIN face THEN <<face.embedding>> ELSE e

\* for s_emb in stored_embeddings: ... if score > max_score_for_user
RECURSIVE ScanStored(_, _, _, _)
ScanStored(q_emb, stored_embeddings, j, max_score_for_user) ==
    IF j > Len(stored_embeddings) THEN max_score_for_user
    ELSE LET score == ComputeCosineSimilarity(q_emb, stored_embeddings[j]) IN
         ScanStored(q_emb, stored_embeddings, j + 1,
                    IF Gt(score, max_score_for_user) THEN score ELSE max_score_for_user)

\* for q_emb in query_embeddings: for s_emb in stored_embeddings
RECURSIVE ScanQuery(_, _, _, _)
ScanQuery(query_embeddings, stored_embeddings, i, max_score_for_user) ==
    IF i > Len(query_embeddings) THEN max_score_for_user
    ELSE ScanQuery(query_embeddings, stored_embeddings, i + 1,
                   ScanStored(query_embeddings[i], stored_embeddings, 1, max_score_for_user))

\* max_score_for_user = -1.0, then the two loops.
MaxScoreForUser(query_embeddings, stored_embeddings) ==
    ScanQuery(query_embeddings, stored_embeddings, 1, Num(-100))

\* for face in stored_faces; best_match is the position of
\* best_overall_match in stored_faces, 0 for None.
RECURSIVE ScanFaces(_, _, _, _, _)
ScanFaces(query_embeddings, stored_faces, i, best_score, best_match) ==
    IF i > Len(stored_faces) THEN [score |-> best_score, match |-> best_match]
    ELSE LET stored_embeddings == StoredEmbeddings(stored_faces[i]) IN
         IF stored_embeddings = <<>>
         THEN ScanFaces(query_embeddings, stored_faces, i + 1, best_score, best_match)
         ELSE LET m == MaxScoreForUser(query_embeddings, stored_embeddings) IN
              IF Gt(m, best_score)
              THEN ScanFaces(query_embeddings, stored_faces, i + 1, m, i)
              ELSE ScanFaces(query_embeddings, stored_faces, i + 1, best_score, best_match)

\* Mutant of FindBestMatch: no early return on empty inputs.
FindBestMatchNoGuard(query_embeddings, stored_faces, thr) ==
    LET b == ScanFaces(query_embeddings, stored_faces, 1, Num(-100), 0) IN
    IF Ge(b.score, Num(thr)) /\ b.match # 0
    THEN [done |-> TRUE, matched |-> TRUE,
          user_id |-> stored_faces[b.match].user_id,
          name |-> stored_faces[b.match].name,
          score |-> b.score, selected |-> b.match]
    ELSE [done |-> TRUE, matched |-> FALSE, user_id |-> "None", name |-> "None",
          score |-> b.score, selected |-> b.match]

\* find_best_match; `selected` is best_overall_match at the end of the loop.
FindBestMatch(query_embeddings, stored_faces, thr) ==
    IF stored_faces = <<>> \/ query_embeddings = <<>>
    THEN [done |-> TRUE, matched |-> FALSE, user_id |-> "None", name |-> "None",
          score |-> Num(0), selected |-> 0]
    ELSE LET b == ScanFaces(query_embeddings, stored_faces, 1, Num(-100), 0) IN
         IF Ge(b.score, Num(thr)) /\ b.match # 0
         THEN [done |-> TRUE, matched |-> TRUE,
               user_id |-> stored_faces[b.match].user_id,
               name |-> stored_faces[b.match].name,
               score |-> b.score, selected |-> b.match]
         ELSE [done |-> TRUE, matched |-> FALSE, user_id |-> "None", name |-> "None",
               score |-> b.score, selected |-> b.match]

\* The sequences of at most n different elements of S.
SeqsUpTo(S, n) ==
    {s \in UNION {[1..k -> S] : k \in 0..n} :
        \A i, j \in 1..Len(s) : s[i] = s[j] => i = j}

(***************************************************************************)
(* The embedding extraction of FaceService.  An image is what decoding and *)
(* the detector make of it: whether it decodes, and the embeddings of the  *)
(* faces detected in it.                                                   *)
(***************************************************************************)
Undecodable == [decodes |-> FALSE, faces |-> <<>>]
Photo(faces) == [decodes |-> TRUE, faces |-> faces]
Images ==
    {Undecodable, Photo(<<>>), Photo(<< <<5, 0>> >>),
     Photo(<< <<5, 0>>, <<3, 4>> >>), Photo(<< <<5, 0>>, <<3, 4>>, <<0, 5>> >>)}

\* get_single_face_embedding: (embedding, status); none stands for None.
GetSingleFaceEmbedding(image) ==
    IF ~image.decodes
    THEN [none |-> TRUE, embedding |-> <<>>, status |-> Status("Failed to decode image", 0, 0)]
    ELSE IF Len(image.faces) = 0
    THEN [none |-> TRUE, embedding |-> <<>>,
          status |-> Status("No face detected in the image", 0, 0)]
    ELSE IF Len(image.faces) > 1
    THEN [none |-> TRUE, embedding |-> <<>>,
          status |-> Status("Multiple faces detected", 0, Len(image.faces))]
    ELSE [none |-> FALSE, embedding |-> image.faces[1], status |-> Status("Success", 0, 0)]

\* The loop of get_multiple_face_embeddings from position i on.  Positions
\* count from 1 here, so position i is Python's index i - 1 and the message
\* of a failure reads "Image {i}: ...".  calls is the number of images
\* get_single_face_embedding has been called on at the return.
RECURSIVE EmbeddingsFrom(_, _, _)
EmbeddingsFrom(images_base64, i, embeddings) ==
    IF i > Len(images_base64)
    THEN [none |-> FALSE, embeddings |-> embeddings, status |-> Status("Success", 0, 0),
          calls |-> Len(images_base64)]
    ELSE LET r == GetSingleFaceEmbedding(images_base64[i]) IN
         IF r.none
         THEN [none |-> TRUE, embeddings |-> <<>>,
               status |-> [r.status EXCEPT !.image = i], calls |-> i]
         ELSE EmbeddingsFrom(images_base64, i + 1, Append(embeddings, r.embedding))

\* Mutant of GetMultipleFaceEmbeddings: the message names Python's index.
GetMultipleFaceEmbeddingsIndex0(images_base64) ==
    LET r == EmbeddingsFrom(images_base64, 1, <<>>) IN
    IF r.none THEN [r EXCEPT !.status.image = @ - 1] ELSE r

GetMultipleFaceEmbeddings(images_base64) == EmbeddingsFrom(images_base64, 1, <<>>)

(***************************************************************************)
(* The endpoints of main.py as functions of the request and the document   *)
(* in the file.  Each gives the response, whether the store writes, the    *)
(* document written and the number of images handed to the extraction.     *)
(***************************************************************************)
\* str.strip() on the strings of the model.
Strip(s) ==
    CASE s = " u1 " -> "u1"
      [] s = "  " -> ""
      [] s = " n1 " -> "n1"
      [] OTHER -> s

\* raise HTTPException(status_code, detail)
HTTPException(status_code, detail) ==
    [code |-> status_code, detail |-> detail, success |-> FALSE, matched |-> FALSE,
     user_id |-> "None", name |-> "None", score |-> Num(0)]

RegisterResponse(message, user_id, name) ==
    [code |-> 200, detail |-> Status(message, 0, 0), success |-> TRUE, matched |-> FALSE,
     user_id |-> user_id, name |-> name, score |-> Num(0)]

\* VerifyResponse; the score is round(score, 4), which leaves the
\* hundredths of the model as they are.
VerifyResponse(matched, user_id, name, score, message) ==
    [code |-> 200, detail |-> message, success |-> FALSE, matched |-> matched,
     user_id |-> user_id, name |-> name, score |-> score]

DeleteResponse(message) ==
    [code |-> 200, detail |-> Status(message, 0, 0), success |-> TRUE, matched |-> FALSE,
     user_id |-> "None", name |-> "None", score |-> Num(0)]

\* register_face
RegisterFace(request, d, now) ==
    IF Strip(request.user_id) = ""
    THEN [resp |-> HTTPException(400, Status("user_id cannot be empty", 0, 0)),
          write |-> FALSE, data |-> d, calls |-> 0]
    ELSE IF Strip(request.name) = ""
    THEN [resp |-> HTTPException(400, Status("name cannot be empty", 0, 0)),
          write |-> FALSE, data |-> d, calls |-> 0]
    ELSE IF Len(request.images) = 0
    THEN [resp |-> HTTPException(400, Status("images_base64 cannot be empty", 0, 0)),
          write |-> FALSE, data |-> d, calls |-> 0]
    ELSE IF GetFaceById(d, request.user_id).ret # RetNone
    THEN [resp |-> HTTPException(409, Status("already registered", 0, 0)),
          write |-> FALSE, data |-> d, calls |-> 0]
    ELSE LET e == GetMultipleFaceEmbeddings(request.images) IN
         IF e.none
         THEN [resp |-> HTTPException(400, e.status),
               write |-> FALSE, data |-> d, calls |-> e.calls]
         ELSE LET a == AddFace(d, Strip(request.user_id), Strip(request.name),
                               e.embeddings, now) IN
              IF ~a.ret.val
              THEN [resp |-> HTTPException(500, Status("Failed to save face data", 0, 0)),
                    write |-> a.write, data |-> a.data, calls |-> e.calls]
              ELSE [resp |-> RegisterResponse("Face registered successfully",
                                              request.user_id, request.name),
                    write |-> a.write, data |-> a.data, calls |-> e.calls]

\* verify_face
VerifyFace(request, d, thr) ==
    IF Len(request.images) = 0
    THEN [resp |-> HTTPException(400, Status("images_base64 cannot be empty", 0, 0)),
          write |-> FALSE, data |-> d, calls |-> 0]
    ELSE LET e == GetMultipleFaceEmbeddings(request.images) IN
         IF e.none
         THEN [resp |-> VerifyResponse(FALSE, "None", "None", Num(0), e.status),
               write |-> FALSE, data |-> d, calls |-> e.calls]
         ELSE LET stored_faces == GetAllEmbeddings(d).ret.val IN
              IF stored_faces = <<>>
              THEN [resp |-> VerifyResponse(FALSE, "None", "None", Num(0),
                                Status("No registered faces in the system", 0, 0)),
                    write |-> FALSE, data |-> d, calls |-> e.calls]
              ELSE LET m == FindBestMatch(e.embeddings, stored_faces, thr) IN
                   [resp |-> VerifyResponse(m.matched, m.user_id, m.name, m.score,
                                 Status(IF m.matched THEN "Match found"
                                        ELSE "No match found", 0, 0)),
                    write |-> FALSE, data |-> d, calls |-> e.calls]

\* delete_user
DeleteUser(request, d) ==
    LET r == DeleteFace(d, request.user_id) IN
    IF ~r.ret.val
    THEN [resp |-> HTTPException(404, Status("not found", 0, 0)),
          write |-> r.write, data |-> r.data, calls |-> 0]
    ELSE [resp |-> DeleteResponse("deleted successfully"),
          write |-> r.write, data |-> r.data, calls |-> 0]

(***************************************************************************)
(* ApiSpec: the endpoints of main.py called one after the other (they are  *)
(* coroutines without an await, so each runs to its response on the event  *)
(* loop before the next one starts).                                       *)
(***************************************************************************)
RawIds == {"u1", " u1 ", "u2", "  "}
RawNames == {" n1 ", "  "}
ImageLists == SeqsUpTo(Images, MaxImages)
RegisterRequests ==
    [endpoint : {"register"}, user_id : RawIds, name : RawNames, images : ImageLists]
VerifyRequests == [endpoint : {"verify"}, user_id : {""}, name : {""}, images : ImageLists]
DeleteRequests == [endpoint : {"delete"}, user_id : RawIds, name : {""}, images : {<<>>}]

\* get_face_service() called on the event loop: the first call constructs
\* the FaceService (in the running application that call is the one of the
\* lifespan hook, here it is the one of the first request).
GetFaceService ==
    IF face_service = 0
    THEN face_service' = built + 1 /\ built' = built + 1
    ELSE UNCHANGED <<face_service, built>>

\* An endpoint handles `request` with the result r of its function.
Handle(request, r) ==
    /\ ncalls < MaxApiCalls
    /\ ncalls' = ncalls + 1
    /\ req' = request
    /\ resp' = r.resp
    /\ invoked' = r.calls
    /\ before' = JsonLoad(file)
    /\ IF r.write
       THEN file' = WriteData(r.data) /\ committed' = r.data
       ELSE UNCHANGED <<file, committed>>
    /\ UNCHANGED <<tmp, lock, clock, pc, op, data, ret, crashed, onlyCreates, calls, succ,
                   deleted, last, prev, matchVars, spc, got>>

Register(request) ==
    /\ GetFaceService
    /\ Handle(request, RegisterFace(request, JsonLoad(file), clock))

Verify(request) ==
    /\ GetFaceService
    /\ Handle(request, VerifyFace(request, JsonLoad(file), threshold))

Delete(request) ==
    /\ UNCHANGED <<face_service, built>>
    /\ Handle(request, DeleteUser(request, JsonLoad(file)))

ApiNext ==
    \/ \E request \in RegisterRequests : Register(request)
    \/ \E request \in VerifyRequests : Verify(request)
    \/ \E request \in DeleteRequests : Delete(request)

ApiSpec == Init /\ [][ApiNext]_vars

(***************************************************************************)
(* SvcSpec: threads calling get_face_service() for the first time.  A step *)
(* is the test of the global, the construction with the assignment to the  *)
(* global, or the return.                                                   *)
(***************************************************************************)
\* if _face_service is None
CheckService(c) ==
    /\ spc[c] = "start"
    /\ spc' = [spc EXCEPT ![c] = IF face_service = 0 THEN "construct" ELSE "return"]
    /\ UNCHANGED <<face_service, built, got, storeVars, seqVars, matchVars, apiVars>>

\* _face_service = FaceService(); instances are numbered as they are built.
ConstructService(c) ==
    /\ spc[c] = "construct"
    /\ built' = built + 1
    /\ face_service' = built + 1
    /\ spc' = [spc EXCEPT ![c] = "return"]
    /\ UNCHANGED <<got, storeVars, seqVars, matchVars, apiVars>>

\* return _face_service
ReturnService(c) ==
    /\ spc[c] = "return"
    /\ got' = [got EXCEPT ![c] = face_service]
    /\ spc' = [spc EXCEPT ![c] = "done"]
    /\ UNCHANGED <<face_service, built, storeVars, seqVars, matchVars, apiVars>>

SvcNext ==
    \E c \in Callers : CheckService(c) \/ ConstructService(c) \/ ReturnService(c)

SvcSpec == Init /\ [][SvcNext]_vars

(***************************************************************************)
(* MatchSpec: find_best_match applied to bounded inputs.                    *)
(***************************************************************************)
QueryVecs == {<<5, 0>>, <<3, 4>>}
StoredVecs == {<<5, 0>>, <<-5, 0>>, <<0, 0>>}
Queries == SeqsUpTo(QueryVecs, MaxQuery)
\* -1.0, the default MATCH_THRESHOLD 0.45, 0.6 and 1.0
Thresholds == {-100, 45, 60, 100}

UserIds == <<"u1", "u2", "u3", "u4">>
UserNames == <<"n1", "n2", "n3", "n4">>

\* The records that can stand at position i of stored_faces: with a list of
\* embeddings, with the single embedding of an old record, with neither.
FacesAt(i) ==
    {[user_id |-> UserIds[i], name |-> UserNames[i], embeddings |-> e] :
        e \in SeqsUpTo(StoredVecs, MaxEmb)}
    \cup {[user_id |-> UserIds[i], name |-> UserNames[i], embedding |-> <<5, 0>>]}
    \cup {[user_id |-> UserIds[i], name |-> UserNames[i]]}

\* The lists of k records, the record at position i taken from FacesAt(i).
RECURSIVE CandidatesOf(_)
CandidatesOf(k) ==
    IF k = 0 THEN {<<>>}
    ELSE {Append(c, f) : c \in CandidatesOf(k - 1), f \in FacesAt(k)}

Candidates == UNION {CandidatesOf(k) : k \in 0..MaxFaces}

\* The document whose items are stored_faces.
StoreOf(stored_faces) == [EmptyDoc EXCEPT !.items = stored_faces]

\* The file holds the candidate records, MATCH_THRESHOLD is the threshold.
MatchInit ==
    /\ query \in Queries
    /\ stored \in Candidates
    /\ threshold \in Thresholds
    /\ mres = NoResult
    /\ file = JsonDump(StoreOf(stored))
    /\ committed = StoreOf(stored)
    /\ InitCalls
    /\ InitHandlers

FindBestMatchCall ==
    /\ ~mres.done
    /\ mres' = FindBestMatch(query, stored, threshold)
    /\ UNCHANGED <<storeVars, seqVars, query, stored, threshold, apiVars, svcVars>>

\* A verify request with one image per query embedding, each showing one
\* face with that embedding.
VerifyRequestOf(query_embeddings) ==
    [endpoint |-> "verify", user_id |-> "", name |-> "",
     images |-> [i \in 1..Len(query_embeddings) |-> Photo(<<query_embeddings[i]>>)]]

\* verify_face handles the request once, after find_best_match has been
\* applied to the same inputs (neither call changes what the other reads).
VerifyFaceCall ==
    /\ mres.done
    /\ req = NoRequest
    /\ Verify(VerifyRequestOf(query))

MatchNext == FindBestMatchCall \/ VerifyFaceCall

MatchSpec == MatchInit /\ [][MatchNext]_vars

(***************************************************************************)
(* Properties of the store.                                                 *)
(***************************************************************************)
HasKey(items, k) == \E i \in 1..Len(items) : items[i].user_id = k
AllIdle == \A t \in Threads : pc[t] = "idle"
IsCall(r, name) == r.call.name = name

\* C1: while only add_face calls (and reads) have been made on the store, at
\* most one add_face call per user_id has returned True, whatever the
\* interleaving of the threads.
C1_AtMostOneCreateSucceeds ==
    onlyCreates => \A k \in Keys : succ[k] <= 1

\* C2: when threads have called add_face with pairwise different user_ids
\* and all calls have returned, every user_id whose add_face returned True
\* is in the primary file.
C2_NoCreatedEntryLost ==
    (onlyCreates /\ AllIdle /\ \A k \in Keys : calls[k] <= 1)
        => \A k \in Keys : succ[k] >= 1 => HasKey(file.items, k)

\* C3: in every state, also in the middle of a write and after a crash in
\* the middle of a write, the primary file is the complete serialisation of
\* the document of the last write that reached os.replace.
C3_PrimaryFileIsCommitted ==
    file = JsonDump(committed)

\* C3 witness: the process crashed in the middle of json.dump, after an
\* earlier write had committed a record: the temporary file is left
\* incomplete.
C3_Witness ==
    /\ crashed
    /\ AllIdle
    /\ tmp.exists /\ ~tmp.closed
    /\ Len(committed.items) > 0

\* C4: in every state and under every interleaving of add_face, update_face
\* and delete_face, the items of the primary file carry pairwise different
\* user_ids.
C4_UniqueKeys ==
    \A i, j \in 1..Len(file.items) :
        file.items[i].user_id = file.items[j].user_id => i = j

\* C4 witness: two racing add_face calls of one user_id have both returned
\* True, and the file holds that user_id next to another one.
C4_Witness ==
    \E k \in Keys : succ[k] = 2 /\ HasKey(file.items, k) /\ Len(file.items) = 2

\* C5: of two add_face calls with the same user_id, one directly after the
\* other, the second returns False and leaves the file as the first left it.
C5_SecondCreateRejected ==
    (IsCall(last, "add_face") /\ IsCall(prev, "add_face")
        /\ last.call.user_id = prev.call.user_id)
        => (last.ret = RetBool(FALSE) /\ file = JsonDump(before))

\* C5 witness: the first add_face succeeded, the second, with another name
\* and other embeddings, was rejected.
C5_Witness ==
    /\ IsCall(last, "add_face") /\ IsCall(prev, "add_face")
    /\ last.call.user_id = prev.call.user_id
    /\ last.call.dname # prev.call.dname
    /\ last.call.embeddings # prev.call.embeddings
    /\ prev.ret = RetBool(TRUE)
    /\ last.ret = RetBool(FALSE)

\* C6: add_face of a user_id that is not in the store returns True, and a
\* get_face_by_id of that user_id directly after it returns an item with
\* exactly the embeddings and the name given, with created_at and without
\* updated_at.
C6_CreateThenGet ==
    /\ (IsCall(last, "add_face") /\ ~HasKey(before.items, last.call.user_id))
        => last.ret = RetBool(TRUE)
    /\ (IsCall(last, "get_face_by_id") /\ IsCall(prev, "add_face")
            /\ prev.ret = RetBool(TRUE) /\ last.call.user_id = prev.call.user_id)
        => /\ last.ret.kind = "item"
           /\ last.ret.val.user_id = prev.call.user_id
           /\ last.ret.val.embeddings = prev.call.embeddings
           /\ last.ret.val.name = prev.call.dname
           /\ "created_at" \in DOMAIN last.ret.val
           /\ "updated_at" \notin DOMAIN last.ret.val

\* C6 witness: a second record with two embeddings was created and read back.
C6_Witness ==
    /\ IsCall(last, "get_face_by_id") /\ IsCall(prev, "add_face")
    /\ prev.ret = RetBool(TRUE)
    /\ last.call.user_id = prev.call.user_id
    /\ Len(prev.call.embeddings) = 2
    /\ Len(before.items) = 2

\* C7: update_face returns True exactly when the user_id is in the store.
\* Then the record has the name and exactly the embeddings given, updated_at
\* is set, created_at and user_id are as before, and the other records and
\* the order of the records are as before.  Otherwise it returns False and
\* the file is as before.
C7_UpdateFrame ==
    IsCall(last, "update_face") =>
        LET k == last.call.user_id
            old == before.items
            new == file.items
        IN /\ (last.ret = RetBool(TRUE)) <=> HasKey(old, k)
           /\ last.ret \in {RetBool(TRUE), RetBool(FALSE)}
           /\ Loadable(file)
           /\ HasKey(old, k) =>
                /\ Len(new) = Len(old)
                /\ \A i \in 1..Len(old) :
                     IF old[i].user_id = k
                     THEN /\ new[i].user_id = k
                          /\ new[i].name = last.call.dname
                          /\ new[i].embeddings = last.call.embeddings
                          /\ "updated_at" \in DOMAIN new[i]
                          /\ new[i].created_at = old[i].created_at
                          /\ DOMAIN new[i] = DOMAIN old[i] \cup {"updated_at"}
                     ELSE new[i] = old[i]
           /\ ~HasKey(old, k) => file = JsonDump(before)

\* C7 witness: the first of two records, created at an earlier time with two
\* embeddings, was updated to another name and one embedding.
C7_Witness ==
    /\ IsCall(last, "update_face")
    /\ last.ret = RetBool(TRUE)
    /\ Len(before.items) = 2
    /\ before.items[1].user_id = last.call.user_id
    /\ Len(before.items[1].embeddings) = 2
    /\ Len(last.call.embeddings) = 1
    /\ before.items[1].name # last.call.dname
    /\ file.items[1].updated_at # file.items[1].created_at

\* The items without the record of user_id k, in order.
RECURSIVE Without(_, _)
Without(items, k) ==
    IF items = <<>> THEN <<>>
    ELSE IF Head(items).user_id = k THEN Without(Tail(items), k)
    ELSE <<Head(items)>> \o Without(Tail(items), k)

\* C8: delete_face of a user_id that is not in the store returns False and
\* leaves the items, and so count(), as they were; delete_face of a user_id
\* in the store returns True and removes the record of that user_id and
\* nothing else.
C8_DeleteFrame ==
    IsCall(last, "delete_face") =>
        LET k == last.call.user_id IN
        /\ Loadable(file)
        /\ IF HasKey(before.items, k)
           THEN /\ last.ret = RetBool(TRUE)
                /\ file.items = Without(before.items, k)
                /\ Len(file.items) = Len(before.items) - 1
           ELSE /\ last.ret = RetBool(FALSE)
                /\ file = JsonDump(before)
                /\ Count(JsonLoad(file)).ret = Count(before).ret

\* C8 witness: delete_face of a user_id that is not there, on a store that
\* holds the record of another user_id.
C8_Witness ==
    /\ IsCall(last, "delete_face") /\ last.ret = RetBool(FALSE)
    /\ Len(before.items) = 1
    /\ Len(file.items) = 1

\* The document with every embedding list blanked: two stores that differ
\* only in embeddings have the same blanked document.
BlankEmbeddings(d) ==
    [d EXCEPT !.items = [i \in 1..Len(d.items) |-> [d.items[i] EXCEPT !.embeddings = <<>>]]]

PublicFields == {"user_id", "name", "created_at"}

\* C9: get_all_faces, and the list response built on it, return for each
\* record user_id, name and created_at and nothing else, and return the same
\* for any store that differs from this one only in embeddings.
C9_ListHidesEmbeddings ==
    IsCall(last, "get_all_faces") =>
        /\ last.ret.kind = "list"
        /\ Len(last.ret.val) = Len(before.items)
        /\ \A i \in 1..Len(last.ret.val) :
             /\ DOMAIN last.ret.val[i] = PublicFields
             /\ last.ret.val[i].user_id = before.items[i].user_id
             /\ last.ret.val[i].name = before.items[i].name
             /\ last.ret.val[i].created_at = before.items[i].created_at
        /\ last.ret = GetAllFaces(BlankEmbeddings(before)).ret
        /\ ListUsers(before) = ListUsers(BlankEmbeddings(before))
        /\ \A i \in 1..Len(before.items) : DOMAIN ListUsers(before).users[i] = PublicFields

\* C9 witness: the list of a store of two records with different embeddings.
C9_Witness ==
    /\ IsCall(last, "get_all_faces")
    /\ Len(before.items) = 2
    /\ before.items[1].embeddings # before.items[2].embeddings
    /\ Len(last.ret.val) = 2

\* Thread t has read the file for a call that writes and its write has not
\* reached os.replace yet.
BetweenReadAndWrite(t) == pc[t] \in {"wlock", "wdump", "wreplace"}

\* C16: a thread between the file read and the file write of add_face,
\* update_face or delete_face holds the lock, so that no other thread is
\* reading or writing the file meanwhile.
C16_LockHeldFromReadToWrite ==
    \A t \in Threads :
        BetweenReadAndWrite(t)
            => /\ lock = t
               /\ \A u \in Threads \ {t} : pc[u] \notin {"wdump", "wreplace"}

\* C20: after delete_face(k) has returned True, k is not in the file until an
\* add_face(k) that starts afterwards succeeds, whatever update_face and
\* delete_face calls run concurrently.
C20_DeletedStaysAbsent == \A k \in deleted : ~HasKey(file.items, k)

\* The lock is held only by a thread inside the with block of _write_data
\* (the with block of _read_data is within one step): a thread that waits
\* for the lock or has returned does not hold it.
LockHeldInsideWrite == \A t \in Threads : lock = t => pc[t] \in {"wdump", "wreplace"}

\* C19: under fair scheduling every call of a FaceStorage method that has
\* started returns; no thread waits for the lock while holding it and every
\* way out of _read_data and _write_data releases it, so a thread waits for
\* the with blocks of other calls only.
C19_EveryCallReturns ==
    /\ []LockHeldInsideWrite
    /\ \A t \in Threads : (pc[t] # "idle") ~> (pc[t] = "idle")

\* A thread waits for the lock at the entry of _read_data while another
\* thread, inside _write_data, holds it.
C19_Witness ==
    \E t, u \in Threads :
        t # u /\ pc[t] = "rlock" /\ lock = u /\ pc[u] = "wdump"

(***************************************************************************)
(* Properties of the matcher.                                               *)
(***************************************************************************)
\* The similarities over the cross product of the query embeddings and the
\* embeddings of one record.
CrossScores(q, face) ==
    LET e == StoredEmbeddings(face) IN
    {ComputeCosineSimilarity(q[i], e[j]) : i \in 1..Len(q), j \in 1..Len(e)}

\* The greatest value of a non-empty set of scores that are all numbers.
MaxOf(S) == CHOOSE x \in S : \A y \in S : y.v <= x.v

RecordScore(q, face) == MaxOf(CrossScores(q, face))
GlobalScore(q, faces) == MaxOf({RecordScore(q, faces[i]) : i \in 1..Len(faces)})
FirstBest(q, faces) ==
    CHOOSE i \in 1..Len(faces) :
        /\ RecordScore(q, faces[i]) = GlobalScore(q, faces)
        /\ \A j \in 1..(i - 1) : RecordScore(q, faces[j]) # GlobalScore(q, faces)

\* Non-empty query and candidates, every candidate with an embedding, every
\* similarity a number.
WellFormedMatch ==
    /\ query # <<>>
    /\ stored # <<>>
    /\ \A i \in 1..Len(stored) :
         /\ StoredEmbeddings(stored[i]) # <<>>
         /\ \A x \in CrossScores(query, stored[i]) : ~x.nan

\* C10: for non-empty query embeddings and candidate records, the score
\* find_best_match reports is the greatest, over the records, of the greatest
\* similarity over the cross product of the record's embeddings and the
\* query embeddings, and the record it selects is the first record, in the
\* order of stored_faces, that attains it.
C10_BestIsFirstGlobalMax ==
    (mres.done /\ WellFormedMatch)
        => /\ mres.score = GlobalScore(query, stored)
           /\ mres.selected = FirstBest(query, stored)

\* The candidates that have an embedding, in order.
RECURSIVE DropEmpty(_)
DropEmpty(faces) ==
    IF faces = <<>> THEN <<>>
    ELSE IF StoredEmbeddings(Head(faces)) = <<>> THEN DropEmpty(Tail(faces))
    ELSE <<Head(faces)>> \o DropEmpty(Tail(faces))

\* Every similarity find_best_match computes for these inputs is a number.
AllScoresNumbers ==
    \A i \in 1..Len(stored) : \A x \in CrossScores(query, stored[i]) : ~x.nan

\* C12: find_best_match given no candidate or no query embedding returns
\* no match, score 0.0 and no identity whatever the threshold, and verify_face
\* on a store without records answers no match with score 0.0.
C12_EmptyInputsNoMatch ==
    /\ (mres.done /\ (stored = <<>> \/ query = <<>>))
            => (~mres.matched /\ mres.score = Num(0)
                /\ mres.user_id = "None" /\ mres.name = "None")
    /\ (req.endpoint = "verify" /\ JsonLoad(file).items = <<>> /\ resp.code = 200)
            => (~resp.matched /\ resp.score = Num(0)
                /\ resp.user_id = "None" /\ resp.name = "None")

\* With the threshold -1.0 and a face in the query, find_best_match has run
\* on no candidate and verify_face has answered on the store without records.
C12_Witness ==
    /\ mres.done /\ stored = <<>> /\ query # <<>> /\ threshold = -100
    /\ req.endpoint = "verify" /\ resp.code = 200 /\ JsonLoad(file).items = <<>>

\* C15: every similarity find_best_match computes, also one with an all-zero
\* vector, is a number between -1.0 and 1.0, and the score find_best_match
\* returns is a number.
C15_SimilarityDefined ==
    mres.done
        => /\ \A i \in 1..Len(stored) : \A x \in CrossScores(query, stored[i]) :
                  ~x.nan /\ x.v \in -100..100
           /\ ~mres.score.nan /\ mres.score.v \in -100..100

\* C11: for non-empty inputs with at least one candidate that has embeddings
\* and every threshold, find_best_match reports matched with the key, name
\* and score of the best record exactly when the greatest score is at least
\* the threshold, also when it equals the threshold and when it is -1.0;
\* otherwise it reports no match, no identity, and the greatest score.
C11_MatchedIffScoreAtLeastThreshold ==
    (mres.done /\ query # <<>> /\ DropEmpty(stored) # <<>> /\ AllScoresNumbers)
        => LET faces == DropEmpty(stored)
               g == GlobalScore(query, faces)
               b == faces[FirstBest(query, faces)]
           IN /\ mres.score = g
              /\ mres.matched <=> (g.v >= threshold)
              /\ mres.matched => (mres.user_id = b.user_id /\ mres.name = b.name)
              /\ ~mres.matched => (mres.user_id = "None" /\ mres.name = "None")

(***************************************************************************)
(* Properties of the endpoints.                                             *)
(***************************************************************************)
\* The image decodes and shows no face or more than one.
Offending(image) == image.decodes /\ Len(image.faces) # 1
HasOffending(images) == \E i \in 1..Len(images) : Offending(images[i])
FirstOffending(images) ==
    CHOOSE i \in 1..Len(images) :
        Offending(images[i]) /\ \A j \in 1..(i - 1) : ~Offending(images[j])

\* The response is an error whose detail names image i and says what is
\* wrong with it: no face, or several faces and how many.
NamesOffending(response, images, i) ==
    /\ response.code = 400
    /\ response.detail.image = i
    /\ IF Len(images[i].faces) = 0
       THEN response.detail = Status("No face detected in the image", i, 0)
       ELSE response.detail = Status("Multiple faces detected", i, Len(images[i].faces))

\* C13 as stated: a register request with an image showing no face or
\* several faces fails with an error naming the first such image and the
\* reason, no later image is handed to the extraction, the store is unchanged.
C13_FirstOffendingImageNamed ==
    (req.endpoint = "register" /\ HasOffending(req.images))
        => LET i == FirstOffending(req.images) IN
           /\ NamesOffending(resp, req.images, i)
           /\ invoked <= i
           /\ file = JsonDump(before)

\* The request reaches the extraction and the extraction reaches the first
\* offending image: user_id and name are not blank, no record has the
\* user_id as given, and every image before it decodes.
ReachesOffending(request, d) ==
    /\ Strip(request.user_id) # "" /\ Strip(request.name) # ""
    /\ ~HasKey(d.items, request.user_id)
    /\ \A j \in 1..(FirstOffending(request.images) - 1) : request.images[j].decodes

\* C13: a register request with an image showing no face or several faces
\* fails, hands no image after the first such image to the extraction and
\* leaves the store unchanged; when it has a non-blank user_id and name, no
\* record has its user_id and every earlier image decodes, the error names
\* the first such image (counting from 1) and the reason, with the count of
\* faces when there are several.
C13_FirstOffendingImageNamedWhenReached ==
    (req.endpoint = "register" /\ HasOffending(req.images))
        => LET i == FirstOffending(req.images) IN
           /\ resp.code # 200 /\ ~resp.success
           /\ invoked <= i
           /\ file = JsonDump(before)
           /\ ReachesOffending(req, before)
                => (NamesOffending(resp, req.images, i) /\ invoked = i)

\* A record is in the store, and a register request for another user_id
\* whose first image shows one face and whose second shows three has been
\* refused after two images.
C13_Witness ==
    /\ req.endpoint = "register" /\ Len(req.images) >= 2
    /\ Len(req.images[1].faces) = 1 /\ Len(req.images[2].faces) = 3
    /\ ReachesOffending(req, before)
    /\ before.items # <<>>
    /\ resp.detail = Status("Multiple faces detected", 2, 3)
    /\ invoked = 2

\* C14: every register request ends as a success (200), a duplicate
\* conflict (409) or an invalid-input or invalid-image error (400); when the
\* user_id under which the record would be stored (the stripped one) is
\* already in the store and the request is otherwise valid, the answer is the
\* conflict, and in any case the store is then unchanged.
C14_DuplicateIsConflict ==
    req.endpoint = "register"
        => /\ resp.code \in {200, 400, 409}
           /\ HasKey(before.items, Strip(req.user_id)) => file = JsonDump(before)
           /\ ( /\ HasKey(before.items, Strip(req.user_id))
                /\ Strip(req.name) # ""
                /\ GetMultipleFaceEmbeddings(req.images).none = FALSE
                /\ req.images # <<>> )
                    => resp.code = 409

\* What find_best_match returns: (matched, user_id, name, score).
Returned4(r) == <<r.matched, r.user_id, r.name, r.score>>

\* C17: find_best_match returns on a candidate list what it returns on the
\* list without the records that have no embedding, also when no record has
\* one.
C17_EmbeddinglessSkipped ==
    mres.done
        => Returned4(mres) = Returned4(FindBestMatch(query, DropEmpty(stored), threshold))

\* C18: however the first calls of get_face_service interleave, FaceService
\* is constructed once and every caller that has returned got the same
\* instance.
C18_ConstructedOnce ==
    /\ built <= 1
    /\ \A c, d \in Callers :
          (spc[c] = "done" /\ spc[d] = "done") => (got[c] = got[d] /\ got[c] # 0)

=============================================================================
